---- MODULE Spec2Model ----
(***************************************************************************)
(* Model of the Telegram ordering bot of src/src/main.py: the tenant       *)
(* resolver, the tenant config cache, the in-memory chat session store and *)
(* the conversation state machine driven by the /telegram-webhook handler. *)
(*                                                                         *)
(* Python strings are sequences of atoms (string fragments); the string is *)
(* the concatenation of its atoms.  The atom " " is whitespace, "\n" a     *)
(* line break, and no other atom contains whitespace at either end.        *)
(* Python dicts are functions whose DOMAIN is the set of keys present.     *)
(* Prices are integers in cents.                                           *)
(***************************************************************************)
EXTENDS Integers, Sequences, FiniteSets, TLC

VARIABLES SESSIONS, BOT_CACHE, telegram_sessions, last, added, nUpdates, cfg, inflight

vars == <<SESSIONS, BOT_CACHE, telegram_sessions, last, added, nUpdates, cfg, inflight>>

(***************************************************************************)
(* Bounds of the model.                                                    *)
(***************************************************************************)
MaxQty == 2
MaxUpdates == 3
MaxUpdatesOneChat == 5
MaxUpdatesMenu == 3
MaxInflight == 2
MaxPrepare == 2
MaxUpdatesCheckout == 6

(***************************************************************************)
(* String helpers: str.strip, str.startswith, str.split(maxsplit=1),       *)
(* str.splitlines, "x in s", s.split(sep, 1), s.split(sep)[0].             *)
(***************************************************************************)
SP == " "
NL == "\n"

IsSpace(a) == a \in {SP, NL}

RECURSIVE LStrip(_)
LStrip(s) ==
    IF s # <<>> /\ IsSpace(Head(s)) THEN LStrip(Tail(s)) ELSE s

RECURSIVE RStrip(_)
RStrip(s) ==
    IF s # <<>> /\ IsSpace(s[Len(s)]) THEN RStrip(SubSeq(s, 1, Len(s) - 1)) ELSE s

Strip(s) == RStrip(LStrip(s))

StartsWith(s, atom) == s # <<>> /\ Head(s) = atom

Contains(s, atom) == \E i \in 1..Len(s) : s[i] = atom

\* index of the first occurrence of atom in s (Len(s)+1 when absent)
IndexOf(s, atom) ==
    IF Contains(s, atom)
    THEN CHOOSE i \in 1..Len(s) : s[i] = atom /\ \A j \in 1..(i - 1) : s[j] # atom
    ELSE Len(s) + 1

\* index of the first whitespace atom of s (Len(s)+1 when there is none)
FirstSpace(s) ==
    IF \E i \in 1..Len(s) : IsSpace(s[i])
    THEN CHOOSE i \in 1..Len(s) : IsSpace(s[i]) /\ \A j \in 1..(i - 1) : ~IsSpace(s[j])
    ELSE Len(s) + 1

\* s.split(maxsplit=1): the first word, then the remainder without its leading whitespace
SplitMax1(s) ==
    LET t == LStrip(s)
        k == FirstSpace(t)
        rest == LStrip(SubSeq(t, k, Len(t)))
    IN  IF t = <<>> THEN <<>>
        ELSE IF rest = <<>> THEN <<SubSeq(t, 1, k - 1)>>
        ELSE <<SubSeq(t, 1, k - 1), rest>>

\* s.split(sep, 1) for a separator known to occur in s: <<before, after>>
SplitAt(s, sep) ==
    LET k == IndexOf(s, sep)
    IN  <<SubSeq(s, 1, k - 1), SubSeq(s, k + 1, Len(s))>>

\* s.split(sep)[0]
BeforeFirst(s, sep) == SubSeq(s, 1, IndexOf(s, sep) - 1)

RECURSIVE SplitLines(_)
SplitLines(s) ==
    IF s = <<>> THEN <<>>
    ELSE LET k == IndexOf(s, NL)
         IN  <<SubSeq(s, 1, k - 1)>> \o SplitLines(SubSeq(s, k + 1, Len(s)))

\* d.get(k, default)
Get(d, k, default) == IF k \in DOMAIN d THEN d[k] ELSE default

\* d.get(k) or default, for string values (the empty string is falsy)
GetOr(d, k, default) == IF k \in DOMAIN d /\ d[k] # <<>> THEN d[k] ELSE default

\* str(i) for the positions enumerate() produces
DigitStr(i) == <<"1", "2", "3", "4", "5", "6", "7", "8", "9">>[i]

\* float(s) of a stripped string: <<TRUE, cents>>, or <<FALSE, 0>> for ValueError
NumAtoms == {"5", "9.99", "12"}
NumVal(a) == CASE a = "5" -> 500 [] a = "9.99" -> 999 [] a = "12" -> 1200
ParseFloat(s) ==
    IF Len(s) = 1 /\ s[1] \in NumAtoms THEN <<TRUE, NumVal(s[1])>>
    ELSE IF Len(s) = 2 /\ s[1] = "-" /\ s[2] \in NumAtoms THEN <<TRUE, 0 - NumVal(s[2])>>
    ELSE <<FALSE, 0>>

(***************************************************************************)
(* Menu normalizer: build_menu_from_config.                                *)
(* A list element that is not a dict is written [nondict |-> TRUE].        *)
(***************************************************************************)
EnDash == "<en-dash>"
Hyphen == "-"
Dollar == "$"
OnRequestWord == "<hasab>"

DefaultCatName == <<"<qism>">>
DefaultItemName(idx) == <<"<sinf> ", DigitStr(idx)>>
DefaultDescription == <<"<no description yet>">>
OnRequestDescription == <<"<price on request>">>

IsDict(x) == "nondict" \notin DOMAIN x

\* raw JSON values of a "price" field: a number (in cents), a string, a list
Num(cents) == [num |-> cents]
Str(s) == [str |-> s]
AList == [list |-> TRUE]

\* raw value of a field that should be a str but holds a list
NotText == <<"<a list, not a str>">>

NoError == ""

\* the first exception raised in a sequence of evaluations, NoError when none raises
FirstError(errs) ==
    IF \E i \in 1..Len(errs) : errs[i] # NoError
    THEN errs[CHOOSE i \in 1..Len(errs) :
                errs[i] # NoError /\ \A j \in 1..(i - 1) : errs[j] = NoError]
    ELSE NoError

\* float(it.get("price", 0.0) or 0.0): the value in cents, or the exception it raises
ItemPrice(it) ==
    IF "price" \notin DOMAIN it THEN [error |-> NoError, value |-> 0]
    ELSE IF "num" \in DOMAIN it.price THEN [error |-> NoError, value |-> it.price.num]
    ELSE IF "str" \in DOMAIN it.price
    THEN IF it.price.str = <<>> THEN [error |-> NoError, value |-> 0]
         ELSE IF ParseFloat(Strip(it.price.str))[1]
         THEN [error |-> NoError, value |-> ParseFloat(Strip(it.price.str))[2]]
         ELSE [error |-> "ValueError", value |-> 0]
    ELSE [error |-> "TypeError", value |-> 0]

\* it.get(...) on an element that is not a dict raises AttributeError
NormItemError(it) == IF IsDict(it) THEN ItemPrice(it).error ELSE "AttributeError"

NormItem(it, idx, default_id) ==
    [id |-> GetOr(it, "id", default_id),
     name |-> Get(it, "name", DefaultItemName(idx)),
     description |-> Get(it, "description", DefaultDescription),
     price |-> ItemPrice(it).value,
     imageUrl |-> Get(it, "imageUrl", <<>>)]

\* lines 170-191: the list is already in category form
NormalizeCategories(structured_menu) ==
    [cat_idx \in 1..Len(structured_menu) |->
        LET cat == structured_menu[cat_idx]
            cat_id == GetOr(cat, "id", <<"cat_", DigitStr(cat_idx)>>)
            raw_items == cat.items
        IN  [id |-> cat_id,
             name |-> GetOr(cat, "name", DefaultCatName),
             items |-> [idx \in 1..Len(raw_items) |->
                          NormItem(raw_items[idx], idx,
                                   cat_id \o <<"_item_", DigitStr(idx)>>)]]]

\* the exception the loops of lines 172-190 raise, in iteration order
RECURSIVE CategoryErrors(_)
CategoryErrors(structured_menu) ==
    IF structured_menu = <<>> THEN <<>>
    ELSE [idx \in 1..Len(Head(structured_menu).items) |->
             NormItemError(Head(structured_menu).items[idx])]
         \o CategoryErrors(Tail(structured_menu))

RECURSIVE FlatItemsFrom(_, _)
FlatItemsFrom(structured_menu, idx) ==
    IF idx > Len(structured_menu) THEN <<>>
    ELSE (IF IsDict(structured_menu[idx])
          THEN <<NormItem(structured_menu[idx], idx, <<"item_", DigitStr(idx)>>)>>
          ELSE <<>>)
         \o FlatItemsFrom(structured_menu, idx + 1)

\* lines 193-205: a flat list of items
FlatItems(structured_menu) == FlatItemsFrom(structured_menu, 1)

\* the exceptions of the loop of lines 195-205; elements that are not dicts are skipped
FlatErrors(structured_menu) ==
    [idx \in 1..Len(structured_menu) |->
        IF IsDict(structured_menu[idx]) THEN ItemPrice(structured_menu[idx]).error
        ELSE NoError]

MainMenu(items) == << [id |-> <<"main_menu">>, name |-> <<"<food list>">>, items |-> items] >>

RECURSIVE NonBlankLines(_)
NonBlankLines(ls) ==
    IF ls = <<>> THEN <<>>
    ELSE (IF Strip(Head(ls)) # <<>> THEN <<Strip(Head(ls))>> ELSE <<>>)
         \o NonBlankLines(Tail(ls))

\* lines 222-259: one free-text line -> one item
ParseLine(line, idx) ==
    LET sep == IF Contains(line, EnDash) THEN EnDash
               ELSE IF Contains(line, Hyphen) THEN Hyphen ELSE ""
        name == IF sep = "" THEN line ELSE Strip(SplitAt(line, sep)[1])
        rest == IF sep = "" THEN <<>> ELSE Strip(SplitAt(line, sep)[2])
        amount == ParseFloat(Strip(BeforeFirst(rest, Dollar)))
        price == IF rest = <<>> \/ Contains(rest, OnRequestWord) THEN 0
                 ELSE IF amount[1] THEN amount[2] ELSE 0
        description == IF rest = <<>> THEN <<>>
                       ELSE IF Contains(rest, OnRequestWord) THEN OnRequestDescription
                       ELSE rest
    IN  [id |-> <<"item_", DigitStr(idx + 1)>>,
         name |-> name,
         description |-> IF description # <<>> THEN description ELSE DefaultDescription,
         price |-> price,
         imageUrl |-> <<>>]

DemoItem ==
    [id |-> <<"demo_item">>, name |-> <<"<demo item>">>,
     description |-> <<"<menu not configured yet>">>, price |-> 0, imageUrl |-> <<>>]

\* lines 216-278: fall back to the multiline text config['menuItems']
MenuFromText(config) ==
    LET lines == NonBlankLines(SplitLines(Get(config, "menuItems", <<>>)))
        items == [i \in 1..Len(lines) |-> ParseLine(lines[i], i - 1)]
    IN  MainMenu(IF items = <<>> THEN <<DemoItem>> ELSE items)

\* line 218: a truthy menuItems that is not a str has no splitlines()
MenuFromTextError(config) ==
    IF Get(config, "menuItems", <<>>) = NotText THEN "AttributeError" ELSE NoError

\* which of the three paths of lines 166-278 the config takes
MenuPath(config) ==
    LET structured_menu == Get(config, "menu", <<>>)
    IN  IF structured_menu = <<>> THEN "text"
        ELSE IF \A i \in 1..Len(structured_menu) :
                   IsDict(structured_menu[i]) /\ "items" \in DOMAIN structured_menu[i]
        THEN "categories"
        ELSE IF FirstError(FlatErrors(structured_menu)) # NoError THEN "flat"
        ELSE IF FlatItems(structured_menu) # <<>> THEN "flat"
        ELSE "text"

\* the exception build_menu_from_config raises for the config, NoError when it returns
MenuError(config) ==
    CASE MenuPath(config) = "categories" -> FirstError(CategoryErrors(config.menu))
      [] MenuPath(config) = "flat" -> FirstError(FlatErrors(config.menu))
      [] OTHER -> MenuFromTextError(config)

\* the menu build_menu_from_config returns (for a config it does not raise on)
build_menu_from_config(config) ==
    CASE MenuPath(config) = "categories" -> NormalizeCategories(config.menu)
      [] MenuPath(config) = "flat" -> MainMenu(FlatItems(config.menu))
      [] OTHER -> MenuFromText(config)

(***************************************************************************)
(* The remote 'bots' table: tenant id -> config_json.                      *)
(***************************************************************************)
T1 == <<"T1">>
T2 == <<"T2">>
TX == <<"TX">>

Config1 ==
    [restaurantName |-> <<"R1">>,
     menu |-> << [id |-> <<"grill">>, name |-> <<"Grill">>,
                  items |-> << [id |-> <<"A">>, name |-> <<"Kebab">>, price |-> Num(999)],
                               [name |-> <<"Tea">>] >>] >>]

Config2 ==
    [restaurantName |-> <<"R2">>,
     menuItems |-> <<"Falafel", SP, EnDash, SP, "5", Dollar, NL, NL>>]

\* config_json values a third tenant's row may hold, well-formed and malformed
T3 == <<"T3">>

RawConfigs ==
    << [restaurantName |-> <<"R3">>],
       [menu |-> << [id |-> <<"c1">>, name |-> <<"Soups">>, items |-> <<>>] >>],
       [menu |-> << [id |-> <<"c1">>, name |-> <<"Soups">>,
                     items |-> << [id |-> <<"a">>, name |-> <<"Lentil">>,
                                   price |-> Str(<<"abc">>)] >>] >>],
       [menu |-> << [id |-> <<"c1">>, items |-> << [nondict |-> TRUE] >>] >>],
       [menu |-> << [id |-> <<"c1">>,
                     items |-> << [id |-> <<"a">>, price |-> Str(<<SP, "12">>)],
                                  [name |-> <<"Bread">>, price |-> Str(<<>>)] >>] >>],
       [menu |-> << [id |-> <<"c1">>,
                     items |-> << [id |-> <<"a">>, name |-> <<"Lentil">>, price |-> Num(500)],
                                  [id |-> <<"a">>, name |-> <<"Bread">>, price |-> Num(100)] >>],
                    [id |-> <<"c1">>, items |-> << [id |-> <<"b">>, price |-> Num(0)] >>] >>],
       [menu |-> << [id |-> <<"a">>, name |-> <<"Lentil">>, price |-> Num(0 - 500)] >>],
       [menu |-> << [id |-> <<"a">>, name |-> <<"Lentil">>, price |-> AList] >>],
       [menu |-> << [nondict |-> TRUE],
                    [name |-> <<"Bread">>, price |-> Str(<<"9.99">>)] >>],
       [menu |-> << [id |-> <<"item_", "2">>, name |-> <<"Lentil">>, price |-> Num(500)],
                    [name |-> <<"Bread">>, price |-> Num(100)] >>],
       [menu |-> << [nondict |-> TRUE] >>,
        menuItems |-> <<"Soup", SP, Hyphen, SP, Hyphen, "5", Dollar>>],
       [menuItems |-> <<"Soup", SP, Hyphen, SP, OnRequestWord, NL, "Bread">>],
       [menuItems |-> NotText],
       [menuItems |-> <<SP, NL>>] >>

\* the rows of the table: two well-formed tenants, and the third tenant's row if it has one
bots ==
    (T1 :> Config1) @@ (T2 :> Config2)
       @@ (IF cfg = 0 THEN <<>> ELSE (T3 :> RawConfigs[cfg]))

(***************************************************************************)
(* Inbound updates.                                                        *)
(***************************************************************************)
Chats == {1, 2}
NoChat == 0

StartToken == "/start"
BtnShowMenu == <<"<btn show-menu>">>
BtnShowCart == <<"<btn show-cart>">>
BtnClearCart == <<"<btn clear-cart>">>

Texts ==
    { <<StartToken>>,
      <<StartToken, SP, "T1">>,
      <<StartToken, SP, "T2">>,
      <<StartToken, SP, "TX">>,
      <<StartToken, "ed">>,
      BtnShowMenu, BtnShowCart, BtnClearCart,
      <<"hello", SP>>,
      <<>> }

CallbackData ==
    { <<"CAT:", "grill">>, <<"CAT:", "main_menu">>,
      <<"ADD:", "A">>, <<"ADD:", "grill", "_item_", "2">>, <<"ADD:", "item_", "1">>,
      <<"BACK:MAIN">>, <<"BACK:CATS">>, <<"CART:CLEAR">>, <<"CHECKOUT:CONFIRM">>,
      <<"NOOP">> }

MessageUpdate(chat_id, text) ==
    [kind |-> "message", chat_id |-> chat_id, text |-> text, data |-> <<>>]
CallbackUpdate(chat_id, data) ==
    [kind |-> "callback_query", chat_id |-> chat_id, text |-> <<>>, data |-> data]
OtherUpdate ==
    [kind |-> "other", chat_id |-> NoChat, text |-> <<>>, data |-> <<>>]

\* an outbound tg_send_message / tg_send_photo: which message, and what it shows
Msg(tag) == [msg |-> tag, arg |-> <<>>]
MsgWith(tag, arg) == [msg |-> tag, arg |-> arg]

\* outcomes of the remote calls one webhook invocation may make
IO == [lookup_ok : BOOLEAN, fetch_ok : BOOLEAN, upsert_ok : BOOLEAN]

(***************************************************************************)
(* Session store, tenant config cache, remote store helpers.               *)
(***************************************************************************)
NewSession ==
    [state |-> "IDLE", cart |-> <<>>, pending_field |-> "None",
     customer_info |-> [name |-> <<>>, phone |-> <<>>, address |-> <<>>]]

\* a get_session that creates the blank session of every chat at once
get_session_CreatesAll(sessions, chat_id) ==
    [c \in DOMAIN sessions \cup Chats |->
        IF c \in DOMAIN sessions THEN sessions[c] ELSE NewSession]

\* the store after get_session(chat_id); the session is sessions[chat_id]
get_session(sessions, chat_id) ==
    IF chat_id \in DOMAIN sessions THEN sessions ELSE sessions @@ (chat_id :> NewSession)

\* {} for a failed call, a missing row or an empty config_json
fetch_bot_config_from_supabase(bot_id, ok) ==
    IF ok /\ bot_id \in DOMAIN bots THEN bots[bot_id] ELSE <<>>

\* <<>> (None) for a failed call or a missing row, else <<row>>
fetch_telegram_session(rows, chat_id, ok) ==
    IF ok /\ chat_id \in DOMAIN rows THEN <<[chat_id |-> chat_id, bot_id |-> rows[chat_id]]>>
    ELSE <<>>


\* an upsert that inserts but does not overwrite on conflict
upsert_telegram_session_InsertOnly(rows, chat_id, bot_id, ok) ==
    IF ok /\ chat_id \notin DOMAIN rows THEN (chat_id :> bot_id) @@ rows ELSE rows

\* the telegram_sessions table after the upsert; unchanged when the call fails
upsert_telegram_session(rows, chat_id, bot_id, ok) ==
    IF ok THEN (chat_id :> bot_id) @@ rows ELSE rows


\* a cache that is never consulted: every get fetches and stores again
get_bot_context_AlwaysFetches(cache, bot_id, fetch_ok) ==
    IF bot_id = <<>> THEN [ctx |-> <<>>, cache |-> cache, calls |-> <<>>,
          error |-> NoError]
    ELSE LET config == fetch_bot_config_from_supabase(bot_id, fetch_ok)
             call == <<[call |-> "get_config", ok |-> fetch_ok]>>
             ctx == [bot_id |-> bot_id, config |-> config,
                     menu |-> build_menu_from_config(config)]
         IN  IF config = <<>> THEN [ctx |-> <<>>, cache |-> cache, calls |-> call,
          error |-> NoError]
             ELSE [ctx |-> <<ctx>>, cache |-> (bot_id :> ctx) @@ cache, calls |-> call,
          error |-> NoError]

\* a cache that also stores the context built from an empty fetch result
get_bot_context_CachesEmpty(cache, bot_id, fetch_ok) ==
    IF bot_id = <<>> THEN [ctx |-> <<>>, cache |-> cache, calls |-> <<>>,
          error |-> NoError]
    ELSE IF bot_id \in DOMAIN cache
    THEN [ctx |-> <<cache[bot_id]>>, cache |-> cache, calls |-> <<>>,
          error |-> NoError]
    ELSE LET config == fetch_bot_config_from_supabase(bot_id, fetch_ok)
             call == <<[call |-> "get_config", ok |-> fetch_ok]>>
             ctx == [bot_id |-> bot_id, config |-> config,
                     menu |-> build_menu_from_config(config)]
         IN  [ctx |-> IF config = <<>> THEN <<>> ELSE <<ctx>>,
              cache |-> (bot_id :> ctx) @@ cache, calls |-> call,
          error |-> NoError]

\* ctx is <<>> (None) or <<context>>; calls lists the remote calls made
\* a get that fetches a second time when the first fetch gave nothing
get_bot_context_RetriesFetch(cache, bot_id, fetch_ok) ==
    IF bot_id = <<>>
    THEN [ctx |-> <<>>, cache |-> cache, calls |-> <<>>, error |-> NoError]
    ELSE IF bot_id \in DOMAIN cache
    THEN [ctx |-> <<cache[bot_id]>>, cache |-> cache, calls |-> <<>>, error |-> NoError]
    ELSE LET config == fetch_bot_config_from_supabase(bot_id, fetch_ok)
             call == <<[call |-> "get_config", ok |-> fetch_ok]>>
             ctx == [bot_id |-> bot_id, config |-> config,
                     menu |-> build_menu_from_config(config)]
         IN  IF config = <<>>
             THEN [ctx |-> <<>>, cache |-> cache, calls |-> call \o call, error |-> NoError]
             ELSE [ctx |-> <<ctx>>, cache |-> (bot_id :> ctx) @@ cache, calls |-> call,
                   error |-> NoError]

\* error names the exception that escapes the call (nothing is stored then)
get_bot_context(cache, bot_id, fetch_ok) ==
    IF bot_id = <<>>
    THEN [ctx |-> <<>>, cache |-> cache, calls |-> <<>>, error |-> NoError]
    ELSE IF bot_id \in DOMAIN cache
    THEN [ctx |-> <<cache[bot_id]>>, cache |-> cache, calls |-> <<>>, error |-> NoError]
    ELSE LET config == fetch_bot_config_from_supabase(bot_id, fetch_ok)
             call == <<[call |-> "get_config", ok |-> fetch_ok]>>
             ctx == [bot_id |-> bot_id, config |-> config,
                     menu |-> build_menu_from_config(config)]
         IN  IF config = <<>>
             THEN [ctx |-> <<>>, cache |-> cache, calls |-> call, error |-> NoError]
             ELSE IF MenuError(config) # NoError
             THEN [ctx |-> <<>>, cache |-> cache, calls |-> call,
                   error |-> MenuError(config)]
             ELSE [ctx |-> <<ctx>>, cache |-> (bot_id :> ctx) @@ cache, calls |-> call,
                   error |-> NoError]

(***************************************************************************)
(* Tenant resolver.                                                        *)
(***************************************************************************)
\* None is <<>>
parse_start_payload(text) ==
    LET t == Strip(text)
        parts == SplitMax1(t)
    IN  IF ~StartsWith(t, StartToken) THEN <<>>
        ELSE IF Len(parts) < 2 THEN <<>>
        ELSE Strip(parts[2])


\* a payload branch that falls back to the chat's binding when the tenant is not found
ResolveStartPayload_FallsBack(chat_id, bot_id, got, rows, io) ==
    IF got.ctx = <<>> /\ chat_id \in DOMAIN rows /\ rows[chat_id] \in DOMAIN got.cache
    THEN [ctx |-> <<got.cache[rows[chat_id]]>>, cache |-> got.cache, rows |-> rows,
          sent |-> <<>>, calls |-> got.calls,
          error |-> NoError]
    ELSE IF got.ctx = <<>>
    THEN [ctx |-> <<>>, cache |-> got.cache, rows |-> rows,
          sent |-> <<Msg("invalid_link")>>, calls |-> got.calls,
          error |-> NoError]
    ELSE [ctx |-> got.ctx, cache |-> got.cache,
          rows |-> upsert_telegram_session(rows, chat_id, bot_id, io.upsert_ok),
          sent |-> <<>>,
          calls |-> got.calls \o <<[call |-> "upsert_binding", ok |-> io.upsert_ok]>>,
          error |-> NoError]

\* a payload branch that saves the mapping before it validates the tenant
ResolveStartPayload_UpsertsFirst(chat_id, bot_id, got, rows, io) ==
    IF got.ctx = <<>>
    THEN [ctx |-> <<>>, cache |-> got.cache,
          rows |-> upsert_telegram_session(rows, chat_id, bot_id, TRUE),
          sent |-> <<Msg("invalid_link")>>, calls |-> got.calls,
          error |-> NoError]
    ELSE [ctx |-> got.ctx, cache |-> got.cache,
          rows |-> upsert_telegram_session(rows, chat_id, bot_id, io.upsert_ok),
          sent |-> <<>>,
          calls |-> got.calls \o <<[call |-> "upsert_binding", ok |-> io.upsert_ok]>>,
          error |-> NoError]

\* the exception raised inside get_bot_context escapes the resolver
Raised(got, rows, calls) ==
    [ctx |-> <<>>, cache |-> got.cache, rows |-> rows, sent |-> <<>>, calls |-> calls,
     error |-> got.error]

\* lines 477-490: "/start <bot_id>"; got is get_bot_context(bot_id)
ResolveStartPayload(chat_id, bot_id, got, rows, io) ==
    IF got.error # NoError THEN Raised(got, rows, got.calls)
    ELSE IF got.ctx = <<>>
    THEN [ctx |-> <<>>, cache |-> got.cache, rows |-> rows,
          sent |-> <<Msg("invalid_link")>>, calls |-> got.calls,
          error |-> NoError]
    ELSE [ctx |-> got.ctx, cache |-> got.cache,
          rows |-> upsert_telegram_session(rows, chat_id, bot_id, io.upsert_ok),
          sent |-> <<>>,
          calls |-> got.calls \o <<[call |-> "upsert_binding", ok |-> io.upsert_ok]>>,
          error |-> NoError]

\* lines 510-519: the chat has a binding; bound is get_bot_context(str(bot_id))
ResolveBound(bound, cache, rows, lookup) ==
    IF bound.error # NoError THEN Raised(bound, rows, lookup \o bound.calls)
    ELSE IF bound.ctx = <<>>
    THEN [ctx |-> <<>>, cache |-> bound.cache, rows |-> rows,
          sent |-> <<Msg("config_load_failed")>>, calls |-> lookup \o bound.calls,
          error |-> NoError]
    ELSE [ctx |-> bound.ctx, cache |-> bound.cache, rows |-> rows,
          sent |-> <<>>, calls |-> lookup \o bound.calls,
          error |-> NoError]

\* lines 492-519: any other message or callback uses the existing mapping
ResolveExisting(text, sess_row, cache, rows, io) ==
    IF sess_row = <<>>
    THEN [ctx |-> <<>>, cache |-> cache, rows |-> rows,
          sent |-> IF StartsWith(text, StartToken) THEN <<Msg("invalid_link_official")>>
                   ELSE <<Msg("no_bot_for_chat")>>,
          calls |-> <<[call |-> "get_binding", ok |-> io.lookup_ok]>>,
          error |-> NoError]
    ELSE ResolveBound(get_bot_context(cache, sess_row[1].bot_id, io.fetch_ok), cache, rows,
                      <<[call |-> "get_binding", ok |-> io.lookup_ok]>>)


\* a resolver that prefers the chat's existing binding to the payload
ResolveWithPayload_BindingFirst(update, start_payload, cache, rows, io) ==
    IF start_payload # <<>> /\ update.chat_id \notin DOMAIN rows
    THEN ResolveStartPayload(update.chat_id, start_payload,
                             get_bot_context(cache, start_payload, io.fetch_ok), rows, io)
    ELSE ResolveExisting(update.text,
                         fetch_telegram_session(rows, update.chat_id, io.lookup_ok),
                         cache, rows, io)

ResolveWithPayload(update, start_payload, cache, rows, io) ==
    IF start_payload # <<>>
    THEN ResolveStartPayload(update.chat_id, start_payload,
                             get_bot_context(cache, start_payload, io.fetch_ok), rows, io)
    ELSE ResolveExisting(update.text,
                         fetch_telegram_session(rows, update.chat_id, io.lookup_ok),
                         cache, rows, io)

resolve_bot_context_for_update(update, cache, rows, io) ==
    IF update.chat_id = NoChat
    THEN [ctx |-> <<>>, cache |-> cache, rows |-> rows, sent |-> <<>>, calls |-> <<>>,
          error |-> NoError]
    ELSE ResolveWithPayload(update,
                            IF update.text # <<>> THEN parse_start_payload(update.text)
                            ELSE <<>>,
                            cache, rows, io)

(***************************************************************************)
(* Render helpers and menu lookup.                                         *)
(***************************************************************************)
find_category(menu, cat_id) ==
    IF \E i \in 1..Len(menu) : menu[i].id = cat_id
    THEN <<menu[CHOOSE i \in 1..Len(menu) :
                  menu[i].id = cat_id /\ \A j \in 1..(i - 1) : menu[j].id # cat_id]>>
    ELSE <<>>

RECURSIVE AllItems(_)
AllItems(menu) == IF menu = <<>> THEN <<>> ELSE Head(menu).items \o AllItems(Tail(menu))

\* a lookup that falls back to the first item of the menu
find_item_FirstIfMissing(menu, item_id) ==
    LET its == AllItems(menu)
    IN  IF \E i \in 1..Len(its) : its[i].id = item_id
        THEN <<its[CHOOSE i \in 1..Len(its) :
                     its[i].id = item_id /\ \A j \in 1..(i - 1) : its[j].id # item_id]>>
        ELSE IF its # <<>> THEN <<its[1]>> ELSE <<>>

\* lines 394-399: the first item with the id, over the categories in order
find_item(menu, item_id) ==
    LET its == AllItems(menu)
    IN  IF \E i \in 1..Len(its) : its[i].id = item_id
        THEN <<its[CHOOSE i \in 1..Len(its) :
                     its[i].id = item_id /\ \A j \in 1..(i - 1) : its[j].id # item_id]>>
        ELSE <<>>

format_cart(cart) == IF cart = <<>> THEN <<"<cart is empty>">> ELSE <<"<cart lines and total>">>

(***************************************************************************)
(* Conversation state machine: handle_telegram_message.                    *)
(***************************************************************************)

\* a /start branch that forgets to empty the cart
StartReset_KeepsCart(session) ==
    [session EXCEPT !.state = "IDLE", !.pending_field = "None",
                    !.customer_info = [name |-> <<>>, phone |-> <<>>, address |-> <<>>]]

\* lines 589-592: the four assignments of the /start branch
StartReset(session) ==
    [session EXCEPT !.state = "IDLE", !.cart = <<>>, !.pending_field = "None",
                    !.customer_info = [name |-> <<>>, phone |-> <<>>, address |-> <<>>]]


\* an ASK_NAME branch that skips the phone question
StoreName_SkipsPhone(session, text) ==
    [session EXCEPT !.customer_info.name = text, !.state = "ASK_ADDRESS"]

\* lines 613-614, 619-620, 625-626: store the text, advance the state
StoreName(session, text) ==
    [session EXCEPT !.customer_info.name = text, !.state = "ASK_PHONE"]
StorePhone(session, text) ==
    [session EXCEPT !.customer_info.phone = text, !.state = "ASK_ADDRESS"]
StoreAddress(session, text) ==
    [session EXCEPT !.customer_info.address = text, !.state = "IDLE"]


\* a clear branch that only drops the last line
ClearCart_DropsLastLine(session) ==
    [session EXCEPT !.cart = IF @ = <<>> THEN <<>> ELSE SubSeq(@, 1, Len(@) - 1)]

\* lines 664, 784: session["cart"] = []
ClearCart(session) == [session EXCEPT !.cart = <<>>]


\* an if-chain that matches the menu and cart buttons before the checkout states
MessageBranch_ButtonsFirst(state, text) ==
    IF StartsWith(text, StartToken) THEN "start"
    ELSE IF text = BtnShowMenu THEN "show_menu"
    ELSE IF text = BtnShowCart THEN "show_cart"
    ELSE IF text = BtnClearCart THEN "clear_cart"
    ELSE IF state = "ASK_NAME" THEN "ask_name"
    ELSE IF state = "ASK_PHONE" THEN "ask_phone"
    ELSE IF state = "ASK_ADDRESS" THEN "ask_address"
    ELSE "fallback"

\* the branch of handle_telegram_message taken: the order of its if-statements
MessageBranch(state, text) ==
    IF StartsWith(text, StartToken) THEN "start"
    ELSE IF state = "ASK_NAME" THEN "ask_name"
    ELSE IF state = "ASK_PHONE" THEN "ask_phone"
    ELSE IF state = "ASK_ADDRESS" THEN "ask_address"
    ELSE IF text = BtnShowMenu THEN "show_menu"
    ELSE IF text = BtnShowCart THEN "show_cart"
    ELSE IF text = BtnClearCart THEN "clear_cart"
    ELSE "fallback"

handle_telegram_message(sessions, message, bot_context) ==
    LET chat_id == message.chat_id
        text == Strip(message.text)
        store == get_session(sessions, chat_id)
        session == store[chat_id]
        menu == bot_context.menu
        branch == MessageBranch(session.state, text)
    IN  CASE branch = "start" ->
              [sessions |-> [store EXCEPT ![chat_id] = StartReset(session)],
               sent |-> <<Msg("welcome")>>]
          [] branch = "ask_name" ->
              [sessions |-> [store EXCEPT ![chat_id] = StoreName(session, text)],
               sent |-> <<Msg("ask_phone")>>]
          [] branch = "ask_phone" ->
              [sessions |-> [store EXCEPT ![chat_id] = StorePhone(session, text)],
               sent |-> <<Msg("ask_address")>>]
          [] branch = "ask_address" ->
              [sessions |-> [store EXCEPT ![chat_id] = StoreAddress(session, text)],
               sent |-> <<MsgWith("order_summary", format_cart(session.cart))>>]
          [] branch = "show_menu" ->
              [sessions |-> store, sent |-> <<Msg("choose_category")>>]
          [] branch = "show_cart" ->
              [sessions |-> store,
               sent |-> <<MsgWith(IF session.cart # <<>> THEN "cart_with_checkout"
                                  ELSE "cart_with_main_menu",
                                  format_cart(session.cart))>>]
          [] branch = "clear_cart" ->
              [sessions |-> [store EXCEPT ![chat_id] = ClearCart(session)],
               sent |-> <<Msg("cart_cleared")>>]
          [] OTHER ->
              [sessions |-> store, sent |-> <<Msg("use_the_buttons")>>]

(***************************************************************************)
(* Conversation state machine: handle_telegram_callback.                   *)
(***************************************************************************)
\* lines 704-727: one photo or text message per item, each with its ADD:<id> button
ItemMessages(items) ==
    [i \in 1..Len(items) |->
        MsgWith(IF items[i].imageUrl # <<>> THEN "item_photo" ELSE "item_text", items[i].id)]


\* an add branch that appends a new line without looking for an existing one
AddToCart_AlwaysAppends(cart, item_id, item) ==
    Append(cart, [id |-> item_id, name |-> item.name, price |-> item.price, qty |-> 1])

\* an add branch that moves the incremented line to the end of the cart
AddToCart_MovesToEnd(cart, item_id, item) ==
    IF \E i \in 1..Len(cart) : cart[i].id = item_id
    THEN LET k == CHOOSE i \in 1..Len(cart) :
                    cart[i].id = item_id /\ \A j \in 1..(i - 1) : cart[j].id # item_id
         IN  SubSeq(cart, 1, k - 1) \o SubSeq(cart, k + 1, Len(cart))
                \o <<[cart[k] EXCEPT !.qty = @ + 1]>>
    ELSE Append(cart, [id |-> item_id, name |-> item.name, price |-> item.price, qty |-> 1])

\* lines 745-758: increment the first line with this id, else append a new line
AddToCart(cart, item_id, item) ==
    IF \E i \in 1..Len(cart) : cart[i].id = item_id
    THEN LET k == CHOOSE i \in 1..Len(cart) :
                    cart[i].id = item_id /\ \A j \in 1..(i - 1) : cart[j].id # item_id
         IN  [cart EXCEPT ![k].qty = @ + 1]
    ELSE Append(cart, [id |-> item_id, name |-> item.name, price |-> item.price, qty |-> 1])



\* a checkout branch that starts the order over with an empty cart
CheckoutConfirm_DropsCart(session) ==
    IF session.cart = <<>> THEN session
    ELSE [session EXCEPT !.state = "ASK_NAME", !.cart = <<>>]

\* a checkout branch without the empty-cart test
CheckoutConfirm_NoEmptyTest(session) == [session EXCEPT !.state = "ASK_NAME"]

\* lines 788-795: enter ASK_NAME unless the cart is empty
CheckoutConfirm(session) ==
    IF session.cart = <<>> THEN session ELSE [session EXCEPT !.state = "ASK_NAME"]

\* an if-chain that takes the back-to-main button for the clear-cart button
CallbackBranch_BackClears(data) ==
    IF StartsWith(data, "CAT:") THEN "category"
    ELSE IF StartsWith(data, "ADD:") THEN "add"
    ELSE IF data = <<"BACK:MAIN">> THEN "clear_cart"
    ELSE IF data = <<"BACK:CATS">> THEN "back_cats"
    ELSE IF data = <<"CART:CLEAR">> THEN "clear_cart"
    ELSE IF data = <<"CHECKOUT:CONFIRM">> THEN "checkout"
    ELSE "none"

\* the branch of handle_telegram_callback taken: the order of its if-statements
CallbackBranch(data) ==
    IF StartsWith(data, "CAT:") THEN "category"
    ELSE IF StartsWith(data, "ADD:") THEN "add"
    ELSE IF data = <<"BACK:MAIN">> THEN "back_main"
    ELSE IF data = <<"BACK:CATS">> THEN "back_cats"
    ELSE IF data = <<"CART:CLEAR">> THEN "clear_cart"
    ELSE IF data = <<"CHECKOUT:CONFIRM">> THEN "checkout"
    ELSE "none"

handle_telegram_callback(sessions, callback, bot_context) ==
    LET chat_id == callback.chat_id
        data == callback.data
        store == get_session(sessions, chat_id)
        session == store[chat_id]
        menu == bot_context.menu
        id == Tail(data)
        cat == find_category(menu, id)
        item == find_item(menu, id)
        branch == CallbackBranch(data)
    IN  CASE branch = "category" ->
              IF cat = <<>>
              THEN [sessions |-> store, sent |-> <<Msg("category_not_found")>>]
              ELSE [sessions |-> store,
                    sent |-> <<Msg("category_header")>> \o ItemMessages(cat[1].items)
                             \o <<Msg("category_footer")>>]
          [] branch = "add" ->
              IF item = <<>>
              THEN [sessions |-> store, sent |-> <<Msg("item_not_found")>>]
              ELSE [sessions |-> [store EXCEPT ![chat_id].cart = AddToCart(@, id, item[1])],
                    sent |-> <<MsgWith("item_added", item[1].name)>>]
          [] branch = "back_main" ->
              [sessions |-> store, sent |-> <<Msg("back_to_main")>>]
          [] branch = "back_cats" ->
              [sessions |-> store, sent |-> <<Msg("choose_category")>>]
          [] branch = "clear_cart" ->
              [sessions |-> [store EXCEPT ![chat_id] = ClearCart(session)],
               sent |-> <<Msg("cart_cleared")>>]
          [] branch = "checkout" ->
              [sessions |-> [store EXCEPT ![chat_id] = CheckoutConfirm(session)],
               sent |-> <<Msg(IF session.cart = <<>> THEN "cart_is_empty" ELSE "ask_name")>>]
          [] OTHER ->
              [sessions |-> store, sent |-> <<>>]

(***************************************************************************)
(* The /telegram-webhook endpoint: resolve the tenant, then dispatch.      *)
(***************************************************************************)
NoUpdate == [kind |-> "none", chat_id |-> NoChat, text |-> <<>>, data |-> <<>>]

\* the session state of a chat, "NONE" while the chat has no session
StateOf(sessions, chat_id) ==
    IF chat_id \in DOMAIN sessions THEN sessions[chat_id].state ELSE "NONE"

QtyWithinBound(sessions) ==
    \A c \in DOMAIN sessions : \A i \in 1..Len(sessions[c].cart) :
        sessions[c].cart[i].qty <= MaxQty

\* the outcome of a remote call that is not made is not an input: fix it to TRUE
OnlyCallsMade(io, calls) ==
    LET made == {calls[i].call : i \in 1..Len(calls)}
    IN  /\ "get_binding" \notin made => io.lookup_ok
        /\ "get_config" \notin made => io.fetch_ok
        /\ "upsert_binding" \notin made => io.upsert_ok


\* a webhook that fetches the chat's session before looking at the resolver's result
Dispatch_SessionFirst(sessions, update, r) ==
    IF update.chat_id = NoChat THEN [sessions |-> sessions, sent |-> <<>>]
    ELSE IF r.ctx = <<>>
    THEN [sessions |-> get_session(sessions, update.chat_id), sent |-> <<>>]
    ELSE IF update.kind = "message"
    THEN handle_telegram_message(sessions, update, r.ctx[1])
    ELSE IF update.kind = "callback_query"
    THEN handle_telegram_callback(sessions, update, r.ctx[1])
    ELSE [sessions |-> sessions, sent |-> <<>>]

\* lines 554-566: dispatch on the update's keys once the tenant is resolved
Dispatch(sessions, update, r) ==
    IF r.ctx = <<>> THEN [sessions |-> sessions, sent |-> <<>>]
    ELSE IF update.kind = "message"
    THEN handle_telegram_message(sessions, update, r.ctx[1])
    ELSE IF update.kind = "callback_query"
    THEN handle_telegram_callback(sessions, update, r.ctx[1])
    ELSE [sessions |-> sessions, sent |-> <<>>]

\* the binding row of a chat in the remote table, <<>> when it has none
BindingOf(rows, chat_id) == IF chat_id \in DOMAIN rows THEN rows[chat_id] ELSE <<>>

HasMsg(sent, tags) == \E i \in 1..Len(sent) : sent[i].msg \in tags

\* history: per chat and item id, the "item added" confirmations sent since the
\* chat's cart was last emptied (a "welcome" or "cart cleared" message)
AddedAfter(counts, update, sent) ==
    IF HasMsg(sent, {"item_added"})
    THEN LET id == Tail(update.data)
             n == IF id \in DOMAIN counts[update.chat_id]
                  THEN counts[update.chat_id][id] ELSE 0
         IN  [counts EXCEPT ![update.chat_id] = (id :> (n + 1)) @@ @]
    ELSE IF HasMsg(sent, {"welcome", "cart_cleared"})
    THEN [counts EXCEPT ![update.chat_id] = <<>>]
    ELSE counts

\* lines 549-566: the resolver's result r, then the handler's result h
HandleResolved(sessions, update, r) == [r |-> r, h |-> Dispatch(sessions, update, r)]

Handle(sessions, cache, rows, update, io) ==
    HandleResolved(sessions, update, resolve_bot_context_for_update(update, cache, rows, io))

\* the number of cart lines of a chat, 0 while the chat has no session
CartLinesOf(sessions, chat_id) ==
    IF chat_id \in DOMAIN sessions THEN Len(sessions[chat_id].cart) ELSE 0

\* lines 551-566, run in one turn of the event loop on the session store the
\* invocation observes
RunWebhook(update, io, observed) ==
    \E r \in {resolve_bot_context_for_update(update, BOT_CACHE, telegram_sessions, io)} :
    \E x \in {HandleResolved(observed, update, r)} :
       /\ OnlyCallsMade(io, x.r.calls)
       /\ QtyWithinBound(x.h.sessions)
       /\ SESSIONS' = x.h.sessions
       /\ BOT_CACHE' = x.r.cache
       /\ telegram_sessions' = x.r.rows
       /\ nUpdates' = nUpdates + 1
       /\ UNCHANGED cfg
       /\ added' = AddedAfter(added, update, x.h.sent)
       /\ last' = [update |-> update,
                   resolved |-> IF x.r.ctx = <<>> THEN <<>> ELSE x.r.ctx[1].bot_id,
                   pre |-> StateOf(SESSIONS, update.chat_id),
                   pre_lines |-> CartLinesOf(SESSIONS, update.chat_id),
                   bound |-> BindingOf(telegram_sessions, update.chat_id),
                   calls |-> x.r.calls,
                   sent |-> x.r.sent \o x.h.sent,
                   response |-> IF x.r.error = NoError THEN "ok" ELSE x.r.error]

\* lines 548-566 when no other invocation is in flight
telegram_webhook(update, io) ==
    /\ RunWebhook(update, io, SESSIONS)
    /\ UNCHANGED inflight

\* the outcomes to try for an update: a failure only shortens the sequence of remote
\* calls, so the calls that can fail are those made when every call succeeds
AllOk == [lookup_ok |-> TRUE, fetch_ok |-> TRUE, upsert_ok |-> TRUE]
CallsMade(calls) == {calls[i].call : i \in 1..Len(calls)}

OutcomesOf(made) ==
    [lookup_ok : IF "get_binding" \in made THEN BOOLEAN ELSE {TRUE},
     fetch_ok : IF "get_config" \in made THEN BOOLEAN ELSE {TRUE},
     upsert_ok : IF "upsert_binding" \in made THEN BOOLEAN ELSE {TRUE}]

\* the outcomes of the remote calls this update would make
OutcomesFor(update) ==
    UNION { OutcomesOf(CallsMade(r.calls)) :
            r \in {resolve_bot_context_for_update(update, BOT_CACHE, telegram_sessions, AllOk)} }

\* one webhook invocation carrying a message, a callback query, or neither
TelegramMessage(chats, bound) ==
    /\ nUpdates < bound
    /\ \E chat_id \in chats, text \in Texts :
          \E io \in OutcomesFor(MessageUpdate(chat_id, text)) :
             telegram_webhook(MessageUpdate(chat_id, text), io)

TelegramCallback(chats, bound) ==
    /\ nUpdates < bound
    /\ \E chat_id \in chats, data \in CallbackData :
          \E io \in OutcomesFor(CallbackUpdate(chat_id, data)) :
             telegram_webhook(CallbackUpdate(chat_id, data), io)

TelegramOther(bound) ==
    /\ nUpdates < bound
    /\ \E io \in OutcomesFor(OtherUpdate) : telegram_webhook(OtherUpdate, io)

\* the process starts with empty in-memory stores; the remote telegram_sessions
\* table may already hold bindings written by an earlier run of the process
InitialBindings(chats) == UNION { [D -> {T1, T2}] : D \in SUBSET chats }

InitWith(chats) ==
    /\ SESSIONS = <<>>
    /\ BOT_CACHE = <<>>
    /\ telegram_sessions \in InitialBindings(chats)
    /\ nUpdates = 0
    /\ cfg = 0
    /\ inflight = <<>>
    /\ added = [c \in Chats |-> <<>>]
    /\ last = [update |-> NoUpdate, resolved |-> <<>>, pre |-> "NONE", pre_lines |-> 0,
               bound |-> <<>>,
               calls |-> <<>>, sent |-> <<>>, response |-> "none"]

\* every chat sends updates, short runs
Init == InitWith(Chats)

Next ==
    \/ TelegramMessage(Chats, MaxUpdates)
    \/ TelegramCallback(Chats, MaxUpdates)
    \/ TelegramOther(MaxUpdates)

Spec == Init /\ [][Next]_vars

\* one chat sends updates, longer runs
InitOneChat == InitWith({1})

NextOneChat ==
    \/ TelegramMessage({1}, MaxUpdatesOneChat)
    \/ TelegramCallback({1}, MaxUpdatesOneChat)
    \/ TelegramOther(MaxUpdatesOneChat)

SpecOneChat == InitOneChat /\ [][NextOneChat]_vars

\* one chat talks to the third tenant, whose config_json is any of RawConfigs
MenuTexts ==
    { <<StartToken, SP>> \o T3, <<StartToken>>, BtnShowMenu, BtnShowCart }

MenuCallbackData ==
    { <<"CAT:", "c1">>, <<"CAT:", "main_menu">>,
      <<"ADD:", "a">>, <<"ADD:", "b">>, <<"ADD:", "item_", "2">>,
      <<"ADD:", "c1", "_item_", "2">>, <<"ADD:", "demo_item">> }

MenuMessage(bound) ==
    /\ nUpdates < bound
    /\ \E text \in MenuTexts :
          \E io \in OutcomesFor(MessageUpdate(1, text)) :
             telegram_webhook(MessageUpdate(1, text), io)

MenuCallback(bound) ==
    /\ nUpdates < bound
    /\ \E data \in MenuCallbackData :
          \E io \in OutcomesFor(CallbackUpdate(1, data)) :
             telegram_webhook(CallbackUpdate(1, data), io)

InitMenu ==
    /\ SESSIONS = <<>>
    /\ BOT_CACHE = <<>>
    /\ telegram_sessions \in {<<>>, (1 :> T3)}
    /\ nUpdates = 0
    /\ cfg \in 1..Len(RawConfigs)
    /\ inflight = <<>>
    /\ added = [c \in Chats |-> <<>>]
    /\ last = [update |-> NoUpdate, resolved |-> <<>>, pre |-> "NONE", pre_lines |-> 0,
               bound |-> <<>>,
               calls |-> <<>>, sent |-> <<>>, response |-> "none"]

NextMenu ==
    \/ MenuMessage(MaxUpdatesMenu)
    \/ MenuCallback(MaxUpdatesMenu)

SpecMenu == InitMenu /\ [][NextMenu]_vars

\* ---------------------------------------------------------------------------
\* Webhook invocations in flight at the same time, on the one event loop
\* ---------------------------------------------------------------------------

\* updates that set the chat up, one after the other
PrepareUpdates ==
    { MessageUpdate(1, <<StartToken, SP, "T1">>),
      CallbackUpdate(1, <<"ADD:", "A">>),
      CallbackUpdate(1, <<"CHECKOUT:CONFIRM">>) }

\* updates of invocations that overlap
ConcurrentUpdates ==
    { MessageUpdate(1, <<StartToken>>),
      CallbackUpdate(1, <<"ADD:", "A">>),
      CallbackUpdate(1, <<"CART:CLEAR">>),
      CallbackUpdate(1, <<"CHECKOUT:CONFIRM">>) }

\* a session store as the invocation saw it when it arrived, not the live one
ObservedSessions_Snapshot(inv, sessions) == inv.snap.sessions

\* lines 20-32, 572, 680: get_session hands out the entry of the shared SESSIONS
\* dict itself, read when the handler runs
ObservedSessions(inv, sessions) == sessions

Prepare(bound) ==
    /\ inflight = <<>>
    /\ nUpdates < bound
    /\ \E update \in PrepareUpdates :
          \E io \in OutcomesFor(update) : telegram_webhook(update, io)

\* lines 549-550: the coroutine starts and is suspended at `await request.json()`
Receive ==
    /\ Len(inflight) < MaxInflight
    /\ \E update \in ConcurrentUpdates :
          inflight' = Append(inflight,
                             [update |-> update, pc |-> "suspended", io |-> AllOk,
                              began |-> nUpdates,
                              snap |-> [sessions |-> SESSIONS, cache |-> BOT_CACHE,
                                        rows |-> telegram_sessions]])
    /\ UNCHANGED <<SESSIONS, BOT_CACHE, telegram_sessions, last, added, nUpdates, cfg>>

\* lines 551-566: the event loop resumes one suspended invocation, which runs to
\* its return (the awaited handlers hold no suspension point)
Resume ==
    \E i \in 1..Len(inflight) :
       /\ inflight[i].pc = "suspended"
       /\ \E io \in OutcomesFor(inflight[i].update) :
             /\ RunWebhook(inflight[i].update, io, ObservedSessions(inflight[i], SESSIONS))
             /\ inflight' = [inflight EXCEPT ![i].pc = "done", ![i].io = io]

NextConcurrent ==
    \/ Prepare(MaxPrepare)
    \/ Receive
    \/ Resume

SpecConcurrent == InitOneChat /\ [][NextConcurrent]_vars

\* ---------------------------------------------------------------------------
\* Invocations of two chats, with the blocking remote calls as a position
\* ---------------------------------------------------------------------------

\* updates of the two chats; each makes at least one remote call (the binding
\* lookup of line 493) before anything else
BlockingUpdates ==
    { CallbackUpdate(c, <<"ADD:", "A">>) : c \in Chats }
      \cup { MessageUpdate(c, <<StartToken>>) : c \in Chats }

\* lines 64, 99, 134, 317, 343: requests.get / requests.post are synchronous calls made
\* from the coroutine; while one is waiting, the thread of the event loop is
\* inside it and runs no other coroutine
LoopFree == \A i \in 1..Len(inflight) : inflight[i].pc # "calling"

\* lines 549-550: a request arrives and its coroutine is suspended at
\* `await request.json()`
ReceiveFrom ==
    /\ Len(inflight) < MaxInflight
    /\ \E update \in BlockingUpdates :
          inflight' = Append(inflight,
                             [update |-> update, pc |-> "suspended", io |-> AllOk,
                              began |-> nUpdates,
                              snap |-> [sessions |-> SESSIONS, cache |-> BOT_CACHE,
                                        rows |-> telegram_sessions]])
    /\ UNCHANGED <<SESSIONS, BOT_CACHE, telegram_sessions, last, added, nUpdates, cfg>>

\* lines 551-553: the event loop resumes invocation i, which enters its first
\* remote call and waits for the answer
EnterCall(i) ==
    /\ LoopFree
    /\ inflight[i].pc = "suspended"
    /\ inflight' = [inflight EXCEPT ![i].pc = "calling"]
    /\ UNCHANGED <<SESSIONS, BOT_CACHE, telegram_sessions, last, added, nUpdates, cfg>>

\* lines 553-566: the remote calls answer or fail, and the invocation runs to
\* its return
ReturnFromCall(i) ==
    /\ inflight[i].pc = "calling"
    /\ \E io \in OutcomesFor(inflight[i].update) :
          /\ RunWebhook(inflight[i].update, io, ObservedSessions(inflight[i], SESSIONS))
          /\ inflight' = [inflight EXCEPT ![i].pc = "done", ![i].io = io]

NextBlocking ==
    \/ ReceiveFrom
    \/ \E i \in 1..Len(inflight) : EnterCall(i)
    \/ \E i \in 1..Len(inflight) : ReturnFromCall(i)

SpecBlocking == Init /\ [][NextBlocking]_vars

\* ---------------------------------------------------------------------------
\* One chat going through checkout, long runs over few updates
\* ---------------------------------------------------------------------------
CheckoutTexts == { <<StartToken>>, <<"hello", SP>> }

CheckoutCallbackData == { <<"ADD:", "A">>, <<"CART:CLEAR">>, <<"CHECKOUT:CONFIRM">> }

CheckoutMessage(bound) ==
    /\ nUpdates < bound
    /\ \E text \in CheckoutTexts :
          \E io \in OutcomesFor(MessageUpdate(1, text)) :
             telegram_webhook(MessageUpdate(1, text), io)

CheckoutCallback(bound) ==
    /\ nUpdates < bound
    /\ \E data \in CheckoutCallbackData :
          \E io \in OutcomesFor(CallbackUpdate(1, data)) :
             telegram_webhook(CallbackUpdate(1, data), io)

NextCheckout ==
    \/ CheckoutMessage(MaxUpdatesCheckout)
    \/ CheckoutCallback(MaxUpdatesCheckout)

SpecCheckout == InitOneChat /\ [][NextCheckout]_vars

(***************************************************************************)
(* Properties.                                                             *)
(***************************************************************************)
\* the update handled by the last webhook invocation, and its chat
LastChat == last.update.chat_id
LastIsMessage == last.update.kind = "message"
LastIsCallback(data) == last.update.kind = "callback_query" /\ last.update.data = data
LastResolved == last.resolved # <<>>
\* a start command: a message whose text begins with /start
LastIsStart == LastIsMessage /\ StartsWith(Strip(last.update.text), StartToken)

EmptyInfo == [name |-> <<>>, phone |-> <<>>, address |-> <<>>]
IsReset(session) ==
    session.state = "IDLE" /\ session.cart = <<>> /\ session.customer_info = EmptyInfo


\* the step is one webhook invocation, for an update of chat c
WebhookStep(c) == nUpdates' = nUpdates + 1 /\ last'.update.chat_id = c

CheckoutStates == {"ASK_NAME", "ASK_PHONE", "ASK_ADDRESS"}

(* C1, as stated: a start command received by the webhook in any session   *)
(* state leaves the chat's session with state IDLE, an empty cart and      *)
(* empty customer_info.                                                    *)
C1_StartAlwaysResets ==
    (LastIsStart /\ LastChat \in DOMAIN SESSIONS) => IsReset(SESSIONS[LastChat])

(* C1, amended: a start command whose tenant is resolved leaves the chat's *)
(* session with state IDLE, an empty cart and empty customer_info.         *)
C1_ResolvedStartResets ==
    (LastIsStart /\ LastResolved) =>
        (LastChat \in DOMAIN SESSIONS /\ IsReset(SESSIONS[LastChat]))

C1_Witness ==
    /\ LastIsStart /\ LastResolved
    /\ last.pre = "ASK_ADDRESS" /\ last.pre_lines > 0
    /\ IsReset(SESSIONS[LastChat])

(* C2: after n >= 1 "item added" confirmations for item id X since the     *)
(* cart was last emptied, the cart holds exactly one line for X and its    *)
(* quantity is n.                                                          *)
C2_OneLineQtyIsAdditions ==
    \A c \in Chats : \A x \in DOMAIN added[c] :
        /\ c \in DOMAIN SESSIONS
        /\ LET cart == SESSIONS[c].cart
               lines == {i \in 1..Len(cart) : cart[i].id = x}
           IN  /\ added[c][x] >= 1
               /\ Cardinality(lines) = 1
               /\ \A i \in lines : cart[i].qty = added[c][x]

C2_Witness ==
    \E c \in Chats :
        /\ <<"A">> \in DOMAIN added[c] /\ added[c][<<"A">>] = 2
        /\ Len(SESSIONS[c].cart) = 2
        /\ SESSIONS[c].cart[2].id = <<"A">> /\ SESSIONS[c].cart[2].qty = 2

(* C3: every step that enters ASK_PHONE starts in ASK_NAME, and every step *)
(* that enters ASK_ADDRESS starts in ASK_PHONE.                            *)
C3_SequentialCheckout ==
    [][\A c \in Chats :
         /\ (StateOf(SESSIONS', c) = "ASK_PHONE" /\ StateOf(SESSIONS, c) # "ASK_PHONE")
               => StateOf(SESSIONS, c) = "ASK_NAME"
         /\ (StateOf(SESSIONS', c) = "ASK_ADDRESS" /\ StateOf(SESSIONS, c) # "ASK_ADDRESS")
               => StateOf(SESSIONS, c) = "ASK_PHONE"]_vars

C3_Witness ==
    /\ LastIsMessage /\ last.pre = "ASK_PHONE"
    /\ SESSIONS[LastChat].state = "ASK_ADDRESS"

\* the session after a text was consumed as checkout data in the given state
Consumed(session, text) ==
    CASE session.state = "ASK_NAME" ->
           [session EXCEPT !.customer_info.name = text, !.state = "ASK_PHONE"]
      [] session.state = "ASK_PHONE" ->
           [session EXCEPT !.customer_info.phone = text, !.state = "ASK_ADDRESS"]
      [] session.state = "ASK_ADDRESS" ->
           [session EXCEPT !.customer_info.address = text, !.state = "IDLE"]

RendersMenuOrCart(sent) ==
    HasMsg(sent, {"choose_category", "cart_with_checkout", "cart_with_main_menu",
                  "cart_cleared"})

(* C4, as stated: any text handled while the session is in ASK_NAME,       *)
(* ASK_PHONE or ASK_ADDRESS is stored as name, phone or address, the state *)
(* advances, and nothing else of the session changes.                      *)
C4_AnyTextIsData ==
    [][\A c \in Chats :
         (WebhookStep(c) /\ last'.update.kind = "message" /\ last'.resolved # <<>>
            /\ StateOf(SESSIONS, c) \in CheckoutStates)
         => SESSIONS'[c] = Consumed(SESSIONS[c], Strip(last'.update.text))]_vars

(* C4, amended: any text other than a start command handled while the      *)
(* session is in ASK_NAME, ASK_PHONE or ASK_ADDRESS is stored as name,     *)
(* phone or address, the state advances, the cart is kept, and neither the *)
(* menu nor the cart view nor the "cart cleared" notice is sent.           *)
C4_NonStartTextIsData ==
    [][\A c \in Chats :
         (WebhookStep(c) /\ last'.update.kind = "message" /\ last'.resolved # <<>>
            /\ ~StartsWith(Strip(last'.update.text), StartToken)
            /\ StateOf(SESSIONS, c) \in CheckoutStates)
         => /\ SESSIONS'[c] = Consumed(SESSIONS[c], Strip(last'.update.text))
            /\ ~RendersMenuOrCart(last'.sent)]_vars

C4_Witness ==
    /\ LastIsMessage /\ LastResolved
    /\ last.update.text = BtnClearCart /\ last.pre = "ASK_NAME"
    /\ SESSIONS[LastChat].state = "ASK_PHONE"
    /\ SESSIONS[LastChat].customer_info.name = BtnClearCart
    /\ SESSIONS[LastChat].cart # <<>>

(* C5: a checkout-confirm callback received while the cart is empty leaves *)
(* the session state, cart and customer_info as they were (a chat without  *)
(* a session gets at most a fresh IDLE session), and when it is handled    *)
(* only the "cart is empty" notice is sent.                                *)
C5_EmptyCartCheckoutStays ==
    [][\A c \in Chats :
         (WebhookStep(c) /\ last'.update.kind = "callback_query"
            /\ last'.update.data = <<"CHECKOUT:CONFIRM">>
            /\ CartLinesOf(SESSIONS, c) = 0)
         => /\ c \in DOMAIN SESSIONS => SESSIONS'[c] = SESSIONS[c]
            /\ c \notin DOMAIN SESSIONS => StateOf(SESSIONS', c) \in {"NONE", "IDLE"}
            /\ CartLinesOf(SESSIONS', c) = 0
            /\ last'.resolved # <<>> => last'.sent = <<Msg("cart_is_empty")>>]_vars

C5_Witness ==
    /\ LastIsCallback(<<"CHECKOUT:CONFIRM">>) /\ LastResolved
    /\ last.pre = "IDLE" /\ last.pre_lines = 0
    /\ last.sent = <<Msg("cart_is_empty")>>
    /\ SESSIONS[LastChat].state = "IDLE"

\* the session store after a sequence of updates, every remote call succeeding
RECURSIVE RunUpdates(_, _, _, _)
RunUpdates(sessions, cache, rows, updates) ==
    IF updates = <<>> THEN sessions
    ELSE LET x == Handle(sessions, cache, rows, Head(updates), AllOk)
         IN  RunUpdates(x.h.sessions, x.r.cache, x.r.rows, Tail(updates))

ScenarioOrder(c) ==
    << MessageUpdate(c, <<StartToken, SP>> \o T1),
       CallbackUpdate(c, <<"CAT:", "grill">>),
       CallbackUpdate(c, <<"ADD:", "A">>),
       CallbackUpdate(c, <<"ADD:", "A">>),
       CallbackUpdate(c, <<"CHECKOUT:CONFIRM">>) >>

KebabTwice == <<[id |-> <<"A">>, name |-> <<"Kebab">>, price |-> 999, qty |-> 2]>>

(* C6: from every reachable state, a chat that sends "/start T1", selects  *)
(* a category, adds item A twice and confirms checkout has a session in    *)
(* ASK_NAME whose cart is one line of A with quantity 2, and a start       *)
(* command sent next leaves it IDLE with an empty cart; in every step, a   *)
(* handled checkout-confirm callback with a non-empty cart moves the       *)
(* session to ASK_NAME and keeps the cart.                                 *)
C6_ScenarioEndsInAskName ==
    \A c \in Chats :
       LET s5 == RunUpdates(SESSIONS, BOT_CACHE, telegram_sessions, ScenarioOrder(c))
           s6 == RunUpdates(SESSIONS, BOT_CACHE, telegram_sessions,
                            Append(ScenarioOrder(c), MessageUpdate(c, <<StartToken>>)))
       IN  /\ s5[c].state = "ASK_NAME" /\ s5[c].cart = KebabTwice
           /\ s6[c].state = "IDLE" /\ s6[c].cart = <<>>

C6_CheckoutStep ==
    \A c \in Chats :
       (WebhookStep(c) /\ last'.update.kind = "callback_query"
          /\ last'.update.data = <<"CHECKOUT:CONFIRM">> /\ last'.resolved # <<>>
          /\ CartLinesOf(SESSIONS, c) > 0)
       => /\ SESSIONS'[c].state = "ASK_NAME"
          /\ SESSIONS'[c].cart = SESSIONS[c].cart
          /\ last'.sent = <<Msg("ask_name")>>

C6_CheckoutThenStart == []C6_ScenarioEndsInAskName /\ [][C6_CheckoutStep]_vars

C6_Witness ==
    /\ LastIsCallback(<<"CHECKOUT:CONFIRM">>) /\ last.resolved = T1
    /\ last.pre = "IDLE" /\ nUpdates = 5
    /\ SESSIONS[LastChat].state = "ASK_NAME"
    /\ SESSIONS[LastChat].cart = KebabTwice

LastIsClear ==
    \/ LastIsCallback(<<"CART:CLEAR">>)
    \/ LastIsMessage /\ Strip(last.update.text) = BtnClearCart

(* C7, as stated: after the clear-cart text button or the cart-clear       *)
(* callback was handled, the cart is empty, for every session state and    *)
(* every prior cart content.                                               *)
C7_ClearAlwaysEmpties ==
    (LastIsClear /\ LastResolved) => SESSIONS[LastChat].cart = <<>>

(* C7, amended: after the cart-clear callback was handled in any session   *)
(* state, or the clear-cart text button was handled outside the checkout   *)
(* states, the cart is empty, for every prior cart content.                *)
C7_ClearEmptiesOutsideCheckoutText ==
    (LastIsClear /\ LastResolved /\ (LastIsMessage => last.pre \notin CheckoutStates))
        => /\ SESSIONS[LastChat].cart = <<>>
           /\ last.sent = <<Msg("cart_cleared")>>

C7_Witness ==
    /\ LastIsCallback(<<"CART:CLEAR">>) /\ LastResolved
    /\ last.pre = "ASK_NAME" /\ last.pre_lines = 2
    /\ SESSIONS[LastChat].cart = <<>>

(* C8: an update whose tenant could not be resolved leaves the session     *)
(* store, the tenant config cache and the remote bindings unchanged; a     *)
(* chat with no binding that sends the plain text "hello" is sent the "no  *)
(* bot for this chat" message and nothing else.                            *)
C8_UnresolvedTouchesNothing ==
    [][(nUpdates' = nUpdates + 1 /\ last'.resolved = <<>>)
         => /\ SESSIONS' = SESSIONS
            /\ BOT_CACHE' = BOT_CACHE
            /\ telegram_sessions' = telegram_sessions
            /\ (last'.update.kind = "message" /\ last'.update.text = <<"hello", SP>>
                  /\ last'.bound = <<>>)
               => last'.sent = <<Msg("no_bot_for_chat")>>]_vars

C8_Witness ==
    /\ LastIsMessage /\ last.update.text = <<"hello", SP>>
    /\ last.resolved = <<>> /\ last.bound = <<>>
    /\ last.sent = <<Msg("no_bot_for_chat")>>
    /\ LastChat \notin DOMAIN SESSIONS /\ SESSIONS # <<>> /\ BOT_CACHE # <<>>

\* the text of a deep link: the start token, a space, the tenant id
StartLink(T) == <<StartToken, SP>> \o T

LastIsStartLink(T) == LastIsMessage /\ last.update.text = StartLink(T)

Failed(call) == \E i \in 1..Len(last.calls) : last.calls[i] = [call |-> call, ok |-> FALSE]

Made(call) == \E i \in 1..Len(last.calls) : last.calls[i].call = call

(* C9, as stated: a start command whose payload names an existing tenant T *)
(* resolves the update to T and leaves the chat bound to T, whatever       *)
(* binding the chat had, and the existing binding is not looked up.        *)
C9_PayloadAlwaysResolvesAndRebinds ==
    \A T \in DOMAIN bots :
       LastIsStartLink(T) =>
          /\ last.resolved = T
          /\ BindingOf(telegram_sessions, LastChat) = T
          /\ ~Made("get_binding")

(* C9, amended: a start command whose payload names an existing tenant T   *)
(* never looks the existing binding up; unless the fetch of T's config     *)
(* fails it resolves the update to T whatever binding the chat had, and    *)
(* unless that fetch or the upsert fails the chat is then bound to T.      *)
C9_PayloadResolvesUnlessFetchFails ==
    \A T \in DOMAIN bots :
       LastIsStartLink(T) =>
          /\ ~Made("get_binding")
          /\ ~Failed("get_config") => (last.resolved = T /\ Made("upsert_binding"))
          /\ (~Failed("get_config") /\ ~Failed("upsert_binding"))
                => BindingOf(telegram_sessions, LastChat) = T
          /\ Failed("get_config") => (last.resolved = <<>> /\ ~Made("upsert_binding"))

C9_Witness ==
    /\ LastIsStartLink(T2) /\ last.bound = T1
    /\ last.resolved = T2 /\ BindingOf(telegram_sessions, LastChat) = T2
    /\ T1 \in DOMAIN BOT_CACHE

(* C10, as stated: after a start command with a valid tenant payload T was *)
(* handled for a chat, the persisted binding of that chat is T.            *)
C10_HandledStartLinkIsPersisted ==
    \A T \in DOMAIN bots :
       (LastIsStartLink(T) /\ last.resolved = T)
          => BindingOf(telegram_sessions, LastChat) = T

\* what the chat's next update without a payload resolves to, remote calls succeeding
NextResolves(c) ==
    LET r == resolve_bot_context_for_update(MessageUpdate(c, <<"hello", SP>>),
                                            BOT_CACHE, telegram_sessions, AllOk)
    IN  IF r.ctx = <<>> THEN <<>> ELSE r.ctx[1].bot_id

(* C10, amended: after a start command with a valid tenant payload T was   *)
(* handled for a chat and its upsert succeeded, the persisted binding of   *)
(* that chat is T, overwriting any earlier one, and the chat's next update *)
(* without a payload resolves to T when its remote calls succeed; when the *)
(* upsert failed the binding is the one the chat had before.               *)
C10_StartLinkPersistedUnlessUpsertFails ==
    \A T \in DOMAIN bots :
       (LastIsStartLink(T) /\ last.resolved = T) =>
          IF Failed("upsert_binding")
          THEN BindingOf(telegram_sessions, LastChat) = last.bound
          ELSE /\ BindingOf(telegram_sessions, LastChat) = T
               /\ NextResolves(LastChat) = T

C10_Witness ==
    /\ LastIsStartLink(T1) /\ last.bound = T2 /\ last.resolved = T1
    /\ ~Failed("upsert_binding")
    /\ telegram_sessions[LastChat] = T1 /\ NextResolves(LastChat) = T1

(* C11: a start command whose payload names a tenant that is not found is  *)
(* answered with the "invalid link" message only, the update is            *)
(* unresolved, the chat's binding, the session store and the config cache  *)
(* are unchanged, and the chat's existing binding is not looked up.        *)
C11_UnknownTenantChangesNothing ==
    [][(nUpdates' = nUpdates + 1 /\ last'.update.kind = "message"
          /\ last'.update.text = StartLink(TX))
       => /\ last'.resolved = <<>>
          /\ last'.sent = <<Msg("invalid_link")>>
          /\ Len(last'.calls) = 1 /\ last'.calls[1].call = "get_config"
          /\ SESSIONS' = SESSIONS
          /\ BOT_CACHE' = BOT_CACHE
          /\ telegram_sessions' = telegram_sessions]_vars

C11_Witness ==
    /\ LastIsStartLink(TX) /\ last.resolved = <<>>
    /\ last.bound = T1 /\ T1 \in DOMAIN BOT_CACHE
    /\ last.pre = "ASK_NAME" /\ last.pre_lines > 0
    /\ SESSIONS[LastChat].state = "ASK_NAME" /\ SESSIONS[LastChat].cart # <<>>
    /\ telegram_sessions[LastChat] = T1

StoredContext(T) ==
    [bot_id |-> T, config |-> bots[T], menu |-> build_menu_from_config(bots[T])]

(* C13: a get for a tenant the cache holds returns the stored context and  *)
(* makes no remote call, whatever the remote store would answer; the       *)
(* stored context is the one built from the tenant's config; an update     *)
(* resolved to a cached tenant makes no config fetch; and no step replaces *)
(* or removes a stored entry.                                              *)
C13_CachedGetReturnsStored ==
    \A T \in DOMAIN BOT_CACHE : \A ok \in BOOLEAN :
        /\ get_bot_context(BOT_CACHE, T, ok)
              = [ctx |-> <<BOT_CACHE[T]>>, cache |-> BOT_CACHE, calls |-> <<>>,
                 error |-> NoError]
        /\ BOT_CACHE[T] = StoredContext(T)

C13_CacheStep ==
    /\ \A T \in DOMAIN BOT_CACHE : T \in DOMAIN BOT_CACHE' /\ BOT_CACHE'[T] = BOT_CACHE[T]
    /\ (nUpdates' = nUpdates + 1 /\ last'.resolved \in DOMAIN BOT_CACHE)
          => \A i \in 1..Len(last'.calls) : last'.calls[i].call # "get_config"

C13_CacheKeepsEntries == []C13_CachedGetReturnsStored /\ [][C13_CacheStep]_vars

C13_Witness ==
    /\ LastResolved /\ last.resolved = T1 /\ ~Made("get_config")
    /\ DOMAIN BOT_CACHE = {T1, T2}
    /\ BOT_CACHE[T1] = StoredContext(T1)

(* C14: a start command whose config fetch finds no row or fails stores no *)
(* cache entry and leaves the update unresolved; for every tenant of the   *)
(* bots table that the cache does not hold, a get whose fetch fails        *)
(* returns nothing and leaves the cache as it was, and a get whose fetch   *)
(* succeeds fetches, returns the context and stores it; a tenant id with   *)
(* no row is never stored.                                                 *)
C14_MissGetIsRetried ==
    /\ TX \notin DOMAIN BOT_CACHE
    /\ get_bot_context(BOT_CACHE, TX, TRUE)
          = [ctx |-> <<>>, cache |-> BOT_CACHE,
             calls |-> <<[call |-> "get_config", ok |-> TRUE]>>, error |-> NoError]
    /\ \A T \in DOMAIN bots \ DOMAIN BOT_CACHE :
          /\ get_bot_context(BOT_CACHE, T, FALSE)
                = [ctx |-> <<>>, cache |-> BOT_CACHE,
                   calls |-> <<[call |-> "get_config", ok |-> FALSE]>>, error |-> NoError]
          /\ get_bot_context(BOT_CACHE, T, TRUE)
                = [ctx |-> <<StoredContext(T)>>, cache |-> (T :> StoredContext(T)) @@ BOT_CACHE,
                   calls |-> <<[call |-> "get_config", ok |-> TRUE]>>, error |-> NoError]

C14_FailedFetchStep ==
    \A T \in DOMAIN bots \cup {TX} :
       (nUpdates' = nUpdates + 1 /\ last'.update.kind = "message"
          /\ last'.update.text = StartLink(T) /\ last'.resolved = <<>>)
       => /\ BOT_CACHE' = BOT_CACHE /\ T \notin DOMAIN BOT_CACHE'
          /\ last'.sent = <<Msg("invalid_link")>>

C14_EmptyFetchNotCached == []C14_MissGetIsRetried /\ [][C14_FailedFetchStep]_vars

C14_Witness ==
    /\ LastIsStartLink(T1) /\ Failed("get_config") /\ last.resolved = <<>>
    /\ T1 \notin DOMAIN BOT_CACHE /\ T2 \in DOMAIN BOT_CACHE
    /\ get_bot_context(BOT_CACHE, T1, TRUE).ctx = <<StoredContext(T1)>>

\* ---------------------------------------------------------------------------
\* The webhook's response and the normalized menus, for any config_json
\* ---------------------------------------------------------------------------

\* the menus the process holds: one per cached tenant context
CachedMenus == { BOT_CACHE[T].menu : T \in DOMAIN BOT_CACHE }

\* the ids of a sequence of categories or items, in order
IdsOf(seq) == [i \in 1..Len(seq) |-> seq[i].id]
Distinct(seq) == \A i, j \in 1..Len(seq) : i # j => seq[i] # seq[j]

\* C15: every webhook invocation finishes and returns the success
\* acknowledgement, whatever the update, the tenant's configuration and the
\* outcome of the remote calls: no exception escapes telegram_webhook.
C15_WebhookAlwaysAcknowledges ==
    nUpdates > 0 => last.response = "ok"

\* C16: build_menu_from_config raises on no config_json a tenant's row may
\* hold: a non-numeric price, a category whose items are not records and a
\* menuItems that is not text are all replaced by defaults.
C16_NormalizerNeverRaises ==
    \A T \in DOMAIN bots : MenuError(bots[T]) = NoError

\* C17: a normalized menu is never without items: every menu the process
\* holds has a category, and its categories together hold at least one item.
C17_MenuNeverWithoutItems ==
    \A menu \in CachedMenus : menu # <<>> /\ AllItems(menu) # <<>>

\* C18: every item of a normalized menu has a price >= 0, and so has every
\* line of every cart.
C18_PricesNonNegative ==
    /\ \A menu \in CachedMenus :
          \A i \in 1..Len(AllItems(menu)) : AllItems(menu)[i].price >= 0
    /\ \A c \in DOMAIN SESSIONS :
          \A i \in 1..Len(SESSIONS[c].cart) : SESSIONS[c].cart[i].price >= 0

\* C19: within a normalized menu no two categories share an id and no two
\* items share an id, so the item an add-item callback puts in the cart is the
\* only item displayed with that id.
C19_IdsUnique ==
    \A menu \in CachedMenus :
       /\ Distinct(IdsOf(menu))
       /\ Distinct(IdsOf(AllItems(menu)))

\* ---------------------------------------------------------------------------
\* Concurrent invocations for one chat
\* ---------------------------------------------------------------------------

\* the stores after one more invocation ran alone: Handle is lines 549-566
AfterInvocation(st, inv) ==
    [sessions |-> Handle(st.sessions, st.cache, st.rows, inv.update, inv.io).h.sessions,
     cache |-> Handle(st.sessions, st.cache, st.rows, inv.update, inv.io).r.cache,
     rows |-> Handle(st.sessions, st.cache, st.rows, inv.update, inv.io).r.rows]

\* the stores after the invocations ran one after the other, in the order given,
\* each with the remote-call outcomes it had
RECURSIVE RunInvocations(_, _)
RunInvocations(st, invs) ==
    IF invs = <<>> THEN st
    ELSE RunInvocations(AfterInvocation(st, Head(invs)), Tail(invs))

Orders(n) == { f \in [1..n -> 1..n] : \A i, j \in 1..n : i # j => f[i] # f[j] }

AllDone == inflight # <<>> /\ \A i \in 1..Len(inflight) : inflight[i].pc = "done"

\* the invocations all arrived before any of them was resumed
Overlapping == \A i \in 1..Len(inflight) : inflight[i].began = inflight[1].began

QtyOf(sessions, id) ==
    IF 1 \in DOMAIN sessions /\ \E i \in 1..Len(sessions[1].cart) : sessions[1].cart[i].id = id
    THEN sessions[1].cart[CHOOSE i \in 1..Len(sessions[1].cart) :
                            sessions[1].cart[i].id = id].qty
    ELSE 0

\* C20: once the webhook invocations in flight for a chat have all returned,
\* whatever the order in which they arrived and were resumed, the session
\* store equals the one that running them one after the other, in some order,
\* from the state at the first arrival gives; overlapping add-item callbacks
\* for an item of the chat's tenant raise its quantity by one each.
C20_ConcurrentEqualsSequential ==
    AllDone =>
       /\ \E f \in Orders(Len(inflight)) :
             RunInvocations(inflight[1].snap,
                            [k \in 1..Len(inflight) |-> inflight[f[k]]]).sessions
                = SESSIONS
       /\ (/\ \A i \in 1..Len(inflight) :
                /\ inflight[i].update = CallbackUpdate(1, <<"ADD:", "A">>)
                /\ inflight[i].io = AllOk
           /\ BindingOf(inflight[1].snap.rows, 1) = T1)
          => QtyOf(SESSIONS, <<"A">>)
                = QtyOf(inflight[1].snap.sessions, <<"A">>) + Len(inflight)

C20_Witness ==
    /\ AllDone
    /\ Len(inflight) = 2
    /\ Overlapping
    /\ \A i \in 1..2 : inflight[i].update = CallbackUpdate(1, <<"ADD:", "A">>)
    /\ QtyOf(inflight[1].snap.sessions, <<"A">>) = 0
    /\ QtyOf(SESSIONS, <<"A">>) = 2

\* ---------------------------------------------------------------------------
\* Callbacks and texts that leave the session alone
\* ---------------------------------------------------------------------------

\* the session get_session hands out for the chat: the stored one, or the blank
\* one it creates on first use
SessionOf(sessions, c) == IF c \in DOMAIN sessions THEN sessions[c] ELSE NewSession

NavigationData(data) ==
    StartsWith(data, "CAT:") \/ data = <<"BACK:MAIN">> \/ data = <<"BACK:CATS">>

\* C22: a category-select or back-navigation callback (CAT:<id>, BACK:MAIN,
\* BACK:CATS) leaves the chat's cart, session state and customer_info as they
\* were, whatever the session state.
C22_NavigationKeepsSession ==
    [][\A c \in Chats :
         (WebhookStep(c) /\ last'.update.kind = "callback_query"
            /\ NavigationData(last'.update.data))
         => SessionOf(SESSIONS', c) = SessionOf(SESSIONS, c)]_vars

C22_Witness ==
    /\ LastIsCallback(<<"BACK:MAIN">>) /\ LastResolved
    /\ last.pre = "ASK_NAME"
    /\ last.sent = <<Msg("back_to_main")>>
    /\ SESSIONS[LastChat].state = "ASK_NAME"
    /\ SESSIONS[LastChat].cart # <<>>

\* the menu of the tenant the step resolved the update to
ResolvedMenu == BOT_CACHE'[last'.resolved].menu

KnownCategory(menu, id) == \E i \in 1..Len(menu) : menu[i].id = id
KnownItem(menu, id) == \E i \in 1..Len(AllItems(menu)) : AllItems(menu)[i].id = id

\* C23: a category-select callback for an id that is no category of the
\* resolved tenant's menu, and an add-item callback for an id that is no item
\* of it, send the "not found" notice and nothing else, and leave the chat's
\* session (state, cart lines and quantities, customer_info) as it was.
C23_UnknownIdChangesNothing ==
    [][\A c \in Chats :
         (WebhookStep(c) /\ last'.update.kind = "callback_query" /\ last'.resolved # <<>>)
         => /\ (StartsWith(last'.update.data, "CAT:")
                  /\ ~KnownCategory(ResolvedMenu, Tail(last'.update.data)))
               => (/\ last'.sent = <<Msg("category_not_found")>>
                   /\ SessionOf(SESSIONS', c) = SessionOf(SESSIONS, c))
            /\ (StartsWith(last'.update.data, "ADD:")
                  /\ ~KnownItem(ResolvedMenu, Tail(last'.update.data)))
               => (/\ last'.sent = <<Msg("item_not_found")>>
                   /\ SessionOf(SESSIONS', c) = SessionOf(SESSIONS, c))]_vars

C23_Witness ==
    /\ LastIsCallback(<<"ADD:", "item_", "1">>) /\ last.resolved = T1
    /\ last.sent = <<Msg("item_not_found")>>
    /\ last.pre_lines = 1
    /\ Len(SESSIONS[LastChat].cart) = 1
    /\ SESSIONS[LastChat].cart[1].id = <<"A">>

\* ---------------------------------------------------------------------------
\* The cart
\* ---------------------------------------------------------------------------

CartOf(sessions, c) == SessionOf(sessions, c).cart

\* every line of the earlier cart is at its place in the later one, with its
\* id, name and price, and a quantity that is not smaller
LinesKept(before, after) ==
    /\ Len(after) >= Len(before)
    /\ \A i \in 1..Len(before) :
          /\ after[i].id = before[i].id
          /\ after[i].name = before[i].name
          /\ after[i].price = before[i].price
          /\ after[i].qty >= before[i].qty

EmptiesCart(update) ==
    \/ update.kind = "message" /\ StartsWith(Strip(update.text), StartToken)
    \/ update.kind = "message" /\ Strip(update.text) = BtnClearCart
    \/ update.kind = "callback_query" /\ update.data = <<"CART:CLEAR">>

C24_CartWellFormed ==
    \A c \in DOMAIN SESSIONS :
       /\ \A i \in 1..Len(SESSIONS[c].cart) : SESSIONS[c].cart[i].qty >= 1
       /\ Distinct(IdsOf(SESSIONS[c].cart))

C24_CartStep ==
    \A c \in Chats :
       \/ LinesKept(CartOf(SESSIONS, c), CartOf(SESSIONS', c))
       \/ /\ CartOf(SESSIONS', c) = <<>>
          /\ WebhookStep(c) /\ EmptiesCart(last'.update)

\* C24: in every reachable session every cart line has a quantity >= 1 and
\* the ids of the cart's lines are pairwise distinct; and in every step a
\* cart either becomes empty, by a clear or a start update of its chat, or
\* keeps every line it had in place with a quantity that did not decrease.
C24_LinesOnlyGrow == []C24_CartWellFormed /\ [][C24_CartStep]_vars

C24_Witness ==
    /\ LastIsCallback(<<"ADD:", "A">>) /\ last.resolved = T1
    /\ last.pre_lines = 2
    /\ Len(SESSIONS[LastChat].cart) = 2
    /\ SESSIONS[LastChat].cart[1].id = <<"A">>
    /\ SESSIONS[LastChat].cart[1].qty = 2
    /\ SESSIONS[LastChat].cart[2].qty = 1

\* a start command as the specification gives it: "/start" alone or
\* "/start <tenant_id>"
IsStartCommand(text) ==
    \/ text = <<StartToken>>
    \/ Len(text) >= 2 /\ text[1] = StartToken /\ text[2] = SP

\* C25: a text message handled in IDLE that is neither a start command nor
\* one of the three main-menu button labels gets the "use the buttons" hint
\* and leaves the session's state, cart and customer_info as they were; a
\* text that only begins with the characters of /start, such as "/started",
\* is such a text.
C25_UnrecognizedTextIsHinted ==
    [][\A c \in Chats :
         (WebhookStep(c) /\ last'.update.kind = "message" /\ last'.resolved # <<>>
            /\ SessionOf(SESSIONS, c).state = "IDLE"
            /\ ~IsStartCommand(Strip(last'.update.text))
            /\ Strip(last'.update.text) \notin {BtnShowMenu, BtnShowCart, BtnClearCart})
         => /\ last'.sent = <<Msg("use_the_buttons")>>
            /\ SessionOf(SESSIONS', c) = SessionOf(SESSIONS, c)]_vars

\* ---------------------------------------------------------------------------
\* Remote calls of one webhook invocation
\* ---------------------------------------------------------------------------

CallCount(calls, call) == Cardinality({i \in 1..Len(calls) : calls[i].call = call})

\* the tenant whose context the invocation asks for: the payload's, else the bound one
WantedTenant(update) ==
    IF parse_start_payload(update.text) # <<>> THEN parse_start_payload(update.text)
    ELSE BindingOf(telegram_sessions, update.chat_id)

\* C26: one webhook invocation makes at most one remote binding lookup, at
\* most one remote tenant-config fetch, and that only when the tenant is not
\* in the cache, and at most one remote binding upsert, also when a call
\* fails; a start command with a payload makes no binding lookup.
C26_AtMostOneCallEach ==
    [][nUpdates' = nUpdates + 1
         => /\ CallCount(last'.calls, "get_binding") <= 1
            /\ CallCount(last'.calls, "get_config") <= 1
            /\ CallCount(last'.calls, "upsert_binding") <= 1
            /\ Len(last'.calls) = CallCount(last'.calls, "get_binding")
                  + CallCount(last'.calls, "get_config")
                  + CallCount(last'.calls, "upsert_binding")
            /\ WantedTenant(last'.update) \in DOMAIN BOT_CACHE
                  => CallCount(last'.calls, "get_config") = 0
            /\ parse_start_payload(last'.update.text) # <<>>
                  => CallCount(last'.calls, "get_binding") = 0]_vars

C26_Witness ==
    /\ last.update.kind = "callback_query" /\ last.resolved = <<>>
    /\ last.calls = <<[call |-> "get_binding", ok |-> TRUE],
                      [call |-> "get_config", ok |-> FALSE]>>
    /\ last.sent = <<Msg("config_load_failed")>>

\* ---------------------------------------------------------------------------
\* The cart during and after checkout
\* ---------------------------------------------------------------------------

\* C27: whenever a session is in ASK_NAME, ASK_PHONE or ASK_ADDRESS its cart
\* is not empty, and the order summary sent on leaving ASK_ADDRESS never
\* shows an empty cart.
C27_CheckoutCartNonEmpty ==
    /\ \A c \in DOMAIN SESSIONS :
          SESSIONS[c].state \in CheckoutStates => SESSIONS[c].cart # <<>>
    /\ \A i \in 1..Len(last.sent) :
          last.sent[i].msg = "order_summary" => last.sent[i].arg # format_cart(<<>>)

\* the step completes a checkout of chat c: the order summary is sent
CompletesCheckout(c) ==
    /\ WebhookStep(c)
    /\ SessionOf(SESSIONS, c).state = "ASK_ADDRESS"
    /\ HasMsg(last'.sent, {"order_summary"})

\* C29: completing checkout changes the address and the state only: the cart
\* and the stored name and phone are as before, so the cart is still not
\* empty, and a checkout-confirm callback handled next enters ASK_NAME with
\* that same cart.
C29_CompletionKeepsCart ==
    [][\A c \in Chats :
         CompletesCheckout(c)
         => /\ SESSIONS'[c] = [SESSIONS[c] EXCEPT
                                  !.state = "IDLE",
                                  !.customer_info.address = Strip(last'.update.text)]
            /\ SESSIONS'[c].cart # <<>>
            /\ CheckoutConfirm(SESSIONS'[c])
                  = [SESSIONS[c] EXCEPT
                        !.state = "ASK_NAME",
                        !.customer_info.address = Strip(last'.update.text)]]_vars

\* the line holds the name and unit price of the menu's item with the line's id
LineFromMenu(line, menu) ==
    /\ find_item(menu, line.id) # <<>>
    /\ line.name = find_item(menu, line.id)[1].name
    /\ line.price = find_item(menu, line.id)[1].price

\* the lines of every cart are items of the bound tenant's cached menu
C28_LinesMatchBoundMenu ==
    \A c \in DOMAIN SESSIONS :
       SESSIONS[c].cart # <<>>
       => /\ BindingOf(telegram_sessions, c) \in DOMAIN BOT_CACHE
          /\ \A i \in 1..Len(SESSIONS[c].cart) :
                LineFromMenu(SESSIONS[c].cart[i],
                             BOT_CACHE[BindingOf(telegram_sessions, c)].menu)

\* a step that changes a chat's binding leaves the chat's cart empty
C28_RebindStep ==
    \A c \in Chats :
       BindingOf(telegram_sessions', c) # BindingOf(telegram_sessions, c)
       => CartOf(SESSIONS', c) = <<>>

\* C28: every line of a chat's cart comes from the menu of the tenant the
\* chat is bound to: the chat has a binding, that tenant's context is cached,
\* and the line's name and unit price are those of the item with its id in
\* that cached menu; a step that changes the chat's binding empties the cart,
\* so a cart never mixes lines of two tenants' menus.
C28_CartLinesFromBoundTenant == []C28_LinesMatchBoundMenu /\ [][C28_RebindStep]_vars

C28_Witness ==
    /\ LastIsStartLink(T2) /\ last.resolved = T2
    /\ last.bound = T1 /\ last.pre_lines = 1
    /\ BindingOf(telegram_sessions, 1) = T2
    /\ SESSIONS[1].cart = <<>>
    /\ {T1, T2} \subseteq DOMAIN BOT_CACHE

\* ---------------------------------------------------------------------------
\* Sessions of different chats
\* ---------------------------------------------------------------------------

\* the store without the sessions of the chats other than c
OnlyChat(sessions, c) == [k \in DOMAIN sessions \cap {c} |-> sessions[k]]

\* the outcomes the remote calls of the last invocation had
IoOf(calls) ==
    [lookup_ok |-> [call |-> "get_binding", ok |-> FALSE] \notin {calls[i] : i \in 1..Len(calls)},
     fetch_ok |-> [call |-> "get_config", ok |-> FALSE] \notin {calls[i] : i \in 1..Len(calls)},
     upsert_ok |-> [call |-> "upsert_binding", ok |-> FALSE] \notin {calls[i] : i \in 1..Len(calls)}]

\* what the invocation of the step does when the other chats have no session
AloneOutcome(c) ==
    Handle(OnlyChat(SESSIONS, c), BOT_CACHE, telegram_sessions, last'.update,
           IoOf(last'.calls))

\* C30: handling an update of chat A neither creates nor changes the session
\* of any other chat B, and what it sends and the session of A it leaves are
\* what they would be if no other chat had a session; for every interleaving
\* of the updates of two chats, bound to the same tenant or not.
C30_SessionsIsolated ==
    [][\A c \in Chats :
         WebhookStep(c)
         => /\ \A d \in Chats \ {c} :
                  /\ d \in DOMAIN SESSIONS' <=> d \in DOMAIN SESSIONS
                  /\ d \in DOMAIN SESSIONS => SESSIONS'[d] = SESSIONS[d]
            /\ last'.sent = AloneOutcome(c).r.sent \o AloneOutcome(c).h.sent
            /\ OnlyChat(SESSIONS', c) = AloneOutcome(c).h.sessions]_vars

C30_Witness ==
    /\ LastIsCallback(<<"ADD:", "A">>) /\ LastChat = 2 /\ last.resolved = T1
    /\ DOMAIN SESSIONS = {1, 2}
    /\ BindingOf(telegram_sessions, 1) = T1
    /\ Len(SESSIONS[1].cart) = 1 /\ SESSIONS[1].cart[1].id = <<"A">>
    /\ Len(SESSIONS[2].cart) = 1 /\ SESSIONS[2].cart[1].qty = 1

\* ---------------------------------------------------------------------------
\* Invocations of different chats
\* ---------------------------------------------------------------------------

\* C21: while the invocation for one chat is waiting on a remote call, a
\* suspended invocation for a different chat is not held up: it can be
\* resumed and go on to its own calls and its return.
C21_OtherChatNotBlocked ==
    \A i, j \in 1..Len(inflight) :
       (/\ inflight[i].pc = "calling"
        /\ inflight[j].pc = "suspended"
        /\ inflight[i].update.chat_id # inflight[j].update.chat_id)
       => ENABLED EnterCall(j)

====
